---------------------------- MODULE Spec2Model ----------------------------
(***************************************************************************)
(* Real-time scoreboard service (src/src/problem6): the score update flow  *)
(* (action token validation, fraud risk assessment, Redis leaderboard      *)
(* ZINCRBY, score_history INSERT, publish) and the real-time fanout.       *)
(*                                                                         *)
(* Time is in milliseconds, as Date.now().  Risk sub-scores are in         *)
(* hundredths (0.9 is 90), weights in hundredths (0.3 is 30), so a total   *)
(* risk score is in ten-thousandths (0.8 is 8000).  User ids are numbers;  *)
(* their numeric order stands for the lexicographic order Redis uses on    *)
(* sorted-set members.                                                     *)
(***************************************************************************)
EXTENDS Integers, Sequences, FiniteSets, TLC

(* ---- bounds of the model ---- *)
MaxTicks == 2
PriorCount == 25

Users == {1, 2, 3}
Tokens == {1, 2}
Requests == {1, 2}
TimeSteps == {1, 300000}
\* the behavior hash of a user: none (a new user), or <<actionFrequency, totalActions>>
BehaviorInputs == {<<-1, -1>>, <<0, 10>>}
\* values of the device and time sub-scores
SubScoreSamples == {0, 100}

Conns == {1, 2}
RlSlots == {1, 2}

\* the score increment of the action each token is generated for
TokenInc == <<1, 3>>

(* ---- program constants ---- *)
EXPIRY_MS == 5 * 60 * 1000
NONCE_TTL_S == 600
HOUR_MS == 60 * 60 * 1000
W_FREQUENCY == 30
W_PATTERN == 25
W_BEHAVIOR == 20
W_DEVICE == 15
W_TIME == 10
T_BLOCK == 8000
T_CHALLENGE == 6000
T_MONITOR == 4000
PATTERN_LIMIT == 50

NoRisk == [totalRiskScore |-> -1, riskFactors |-> <<>>, recommendation |-> "NONE"]

VARIABLES
  now,         \* Date.now()
  ticks,       \* number of clock advances so far
  tokens,      \* the action tokens generated: token id -> signed payload
  nonces,      \* redis nonce:<nonce> keys: nonce -> expiry instant (0: no key)
  leaderboard, \* redis sorted set "leaderboard": member -> score
  lbVersion,   \* number of ZINCRBY commands the leaderboard has executed
  history,     \* score_history rows, in insertion order
  fraudLog,    \* requests logged as suspicious activity
  auditFlags,  \* requests flagged for audit
  pc,          \* each request's position in the score update flow
  tok,         \* the token a request carries
  tampered,    \* whether the carried token was altered after signing
  result,      \* the request's outcome
  risk,        \* the request's risk assessment
  freqCount,   \* the count analyzeFrequency read for the request
  reply,       \* the new score ZINCRBY returned to the request
  inbox,       \* score update events published and not yet handled
  serverPc,    \* the WebSocket handler's position
  serverSnap,  \* the leaderboard the WebSocket handler fetched
  connected,   \* the fanout set: connections updates are pushed to
  connPc,      \* each connection's position
  outq,        \* each connection's outbound messages, oldest first
  seen,        \* the version of the leaderboard each client's UI shows
  topk,        \* the last answer of GET /leaderboard
  riskArgs,    \* sub-scores handed to assessRisk
  riskOut,     \* what assessRisk returned for riskArgs
  lastPing,    \* the instant of each connection's last heartbeat ping (0: none)
  rlKey,       \* redis sorted set rate_limit:user:<id>: score -> number of members
  rlExpire,    \* the instant the rate limit key expires
  rlAll,       \* every request the rate limiter has answered, by its Date.now()
  rlAllowed,   \* the requests it has allowed, by their Date.now()
  rlResets,    \* the resetTime of every 429 it has answered
  rlPc,        \* each concurrent enforceRateLimit call's position
  rlStamp,     \* the Date.now() each call has read
  rlMade,      \* number of requests made to the rate limiter
  usersTable,  \* the rows of the SQLite table users
  sqliteSeq,   \* sqlite_sequence of users: the largest id ever assigned
  cPc,         \* each API request's position in its handler
  cReq,        \* the request: method, id, body or query
  cRes,        \* the response: status and data
  cTmp,        \* what the handler holds between two queries
  cSnap,       \* the table as the request's first and last query saw it
  cMade,       \* number of API requests made
  sFn,         \* the sum_to_n function called
  sArgs,       \* the arguments of the call
  sPc,         \* the call's position
  sN,          \* n of the function call on top of the stack
  sI,          \* the loop's i
  sSum,        \* the loop's sum, the accumulator, or the value being returned
  sDepth,      \* number of function calls on the stack
  sOut         \* what the call returned or threw

clockVars == <<now, ticks>>
storeVars == <<nonces, leaderboard, lbVersion, history, fraudLog, auditFlags>>
reqVars == <<pc, tok, tampered, result, risk, freqCount, reply>>
liveVars == <<inbox, serverPc, serverSnap, connected, connPc, outq, seen, topk>>
pureVars == <<riskArgs, riskOut>>
hbVars == <<lastPing>>
rlVars == <<rlKey, rlExpire, rlAll, rlAllowed, rlResets, rlPc, rlStamp, rlMade>>
crudVars == <<usersTable, sqliteSeq, cPc, cReq, cRes, cTmp, cSnap, cMade>>
sumVars == <<sFn, sArgs, sPc, sN, sI, sSum, sDepth, sOut>>
restVars == <<rlVars, crudVars, sumVars>>
auxVars == <<hbVars, restVars>>

vars == <<tokens, clockVars, storeVars, reqVars, liveVars, pureVars, auxVars>>

(* ---- helpers ---- *)
RECURSIVE SumSeq(_)
SumSeq(s) == IF s = <<>> THEN 0 ELSE Head(s) + SumSeq(Tail(s))

RECURSIVE MaxSeq(_)
MaxSeq(s) == IF Len(s) = 1 THEN s[1]
             ELSE LET m == MaxSeq(Tail(s)) IN IF s[1] > m THEN s[1] ELSE m

Min(a, b) == IF a < b THEN a ELSE b

SeqRange(s) == {s[i] : i \in 1..Len(s)}

Reverse(s) == [i \in 1..Len(s) |-> s[Len(s) + 1 - i]]

(* ---- Redis commands ---- *)
Score(lb, u) == IF u \in DOMAIN lb THEN lb[u] ELSE 0

\* a ZADD in place of the ZINCRBY: the score is set, not incremented
ZINCRBY_overwrite(lb, u, inc) == (u :> inc) @@ lb

ZINCRBY(lb, u, inc) ==
  IF u \in DOMAIN lb THEN [lb EXCEPT ![u] = @ + inc] ELSE lb @@ (u :> inc)

NonceExists(store, n, t) == store[n] > t

SETEX(store, n, ttl, t) == [store EXCEPT ![n] = t + ttl * 1000]

(* ---- validateActionToken: the checks ---- *)
SignatureValid(isTampered) == ~isTampered

\* the window taken as exclusive of its last millisecond
TokenExpired_inclusive(tokenAge) == tokenAge >= EXPIRY_MS

TokenExpired(tokenAge) == tokenAge > EXPIRY_MS

(* ---- FraudDetectionEngine ---- *)
\* thresholds taken as strict
getRecommendation_strict(riskScore) ==
  IF riskScore > T_BLOCK THEN "BLOCK"
  ELSE IF riskScore > T_CHALLENGE THEN "CHALLENGE"
  ELSE IF riskScore > T_MONITOR THEN "MONITOR"
  ELSE "ALLOW"

getRecommendation(riskScore) ==
  IF riskScore >= T_BLOCK THEN "BLOCK"
  ELSE IF riskScore >= T_CHALLENGE THEN "CHALLENGE"
  ELSE IF riskScore >= T_MONITOR THEN "MONITOR"
  ELSE "ALLOW"

\* the "very high" band starting above 25 updates instead of above 20
analyzeFrequency_late(count, spanMs, gaps) ==
  IF count > 25 THEN 90
  ELSE IF count > 10 THEN 70
  ELSE IF count > 5 THEN 40
  ELSE 10

\* count rows and the average gap (spanMs / gaps; NULL when gaps = 0) of the
\* user's score_history rows of the last hour
analyzeFrequency(count, spanMs, gaps) ==
  IF count > 20 THEN 90
  ELSE IF count > 10 THEN 70
  ELSE IF count > 5 THEN 40
  ELSE IF gaps > 0 /\ spanMs > 0 /\ spanMs < 5 * 1000 * gaps THEN 80
  ELSE IF gaps > 0 /\ spanMs > 0 /\ spanMs < 15 * 1000 * gaps THEN 50
  ELSE 10

\* increments: score_increment of the user's latest rows (at most 50)
analyzeScorePattern(increments, scoreIncrement) ==
  IF Len(increments) = 0 THEN 10
  ELSE IF scoreIncrement > MaxSeq(increments) * 2 THEN 90
  ELSE IF scoreIncrement * Len(increments) > SumSeq(increments) * 5 THEN 70
  ELSE IF Cardinality(SeqRange(increments)) = 1 /\ Len(increments) > 10 THEN 80
  ELSE 10

\* behavior: <<-1, -1>> when the behavior hash has no action_types, else
\* <<actionFrequency, totalActions>> of the current action type
analyzeBehavior(behavior) ==
  IF behavior[1] < 0 THEN 20
  ELSE IF behavior[2] = 0 THEN 10
  ELSE IF behavior[1] * 100 < 5 * behavior[2] THEN 60
  ELSE IF behavior[1] * 10 < behavior[2] THEN 30
  ELSE 10

assessRisk(frequencyRisk, patternRisk, behaviorRisk, deviceRisk, timeRisk) ==
  LET totalRiskScore == frequencyRisk * W_FREQUENCY + patternRisk * W_PATTERN
                        + behaviorRisk * W_BEHAVIOR + deviceRisk * W_DEVICE
                        + timeRisk * W_TIME
  IN [totalRiskScore |-> Min(totalRiskScore, 10000),
      riskFactors |-> <<frequencyRisk, patternRisk, behaviorRisk, deviceRisk, timeRisk>>,
      recommendation |-> getRecommendation(totalRiskScore)]

\* the branch taken on a total above 1.0, which assessRisk never returns
HighRisk_never(assessment) == assessment.totalRiskScore > 10000

\* the "High Risk" branch of the score update flow
HighRisk(assessment) == assessment.recommendation = "BLOCK"

\* updates that pass but are flagged for audit
AuditFlagged(assessment) == assessment.recommendation \in {"MONITOR", "CHALLENGE"}

(* ---- score_history queries ---- *)
RecentRows(h, u, t) == SelectSeq(h, LAMBDA row : row.user = u /\ row.at > t - HOUR_MS)

UserRows(h, u) == SelectSeq(h, LAMBDA row : row.user = u)

LatestIncrements(h, u) ==
  LET rows == Reverse(UserRows(h, u))
      n == Min(Len(rows), PATTERN_LIMIT)
  IN [i \in 1..n |-> rows[i].inc]

\* assessRisk(userId, scoreIncrement, context) on the rows of score_history h
\* at instant t, with the behavior hash, device and time sub-scores given
RiskOf(h, u, inc, t, behavior, deviceRisk, timeRisk) ==
  LET rows == RecentRows(h, u, t)
      count == Len(rows)
      spanMs == IF count > 1 THEN rows[count].at - rows[1].at ELSE 0
      frequencyRisk == analyzeFrequency(count, spanMs, IF count > 1 THEN count - 1 ELSE 0)
      patternRisk == analyzeScorePattern(LatestIncrements(h, u), inc)
  IN assessRisk(frequencyRisk, patternRisk, analyzeBehavior(behavior),
                deviceRisk, timeRisk)

(* ---- initial state ---- *)
\* the instant the model starts at: one hour of service
StartMs == HOUR_MS

\* generateActionToken: the payload of token t for user u, generated at StartMs
ActionToken(t, u) == [user |-> u, inc |-> TokenInc[t], ts |-> StartMs, nonce |-> t]

\* user 1 already has PriorCount updates of 1 point each, one minute apart
PriorHistory ==
  [i \in 1..PriorCount |->
     [user |-> 1, inc |-> 1, old |-> i - 1, new |-> i,
      at |-> StartMs - (PriorCount + 1 - i) * 60 * 1000]]

NoSnap == [ver |-> -1, top |-> <<>>]
NoTopK == [limit |-> 0, at |-> -1, entries |-> <<>>]

RequestsInit ==
  /\ pc = [r \in Requests |-> "idle"]
  /\ tok = [r \in Requests |-> 0]
  /\ tampered = [r \in Requests |-> FALSE]
  /\ result = [r \in Requests |-> "NONE"]
  /\ risk = [r \in Requests |-> NoRisk]
  /\ freqCount = [r \in Requests |-> -1]
  /\ reply = [r \in Requests |-> -1]

LiveIdle ==
  /\ inbox = 0
  /\ serverPc = "idle"
  /\ serverSnap = NoSnap
  /\ connected = {}
  /\ connPc = [c \in Conns |-> "new"]
  /\ outq = [c \in Conns |-> <<>>]
  /\ seen = [c \in Conns |-> -1]
  /\ topk = NoTopK

PureIdle ==
  /\ riskArgs = <<0, 0, 0, 0, 0>>
  /\ riskOut = NoRisk

HbIdle == lastPing = [c \in Conns |-> 0]

RateIdle ==
  /\ rlKey = <<>>
  /\ rlExpire = 0
  /\ rlAll = <<>>
  /\ rlAllowed = <<>>
  /\ rlResets = {}
  /\ rlPc = [q \in RlSlots |-> "idle"]
  /\ rlStamp = [q \in RlSlots |-> 0]
  /\ rlMade = 0

\* concurrent requests to the users API
CrudSlots == {1, 2}

NoRequest == [op |-> "none"]
NoTables == [first |-> {}, last |-> {}]
NoResponse == [status |-> 0]

\* no API request in progress
CrudRequestsIdle ==
  /\ cPc = [q \in CrudSlots |-> "idle"]
  /\ cReq = [q \in CrudSlots |-> NoRequest]
  /\ cRes = [q \in CrudSlots |-> NoResponse]
  /\ cTmp = [q \in CrudSlots |-> 0]
  /\ cSnap = [q \in CrudSlots |-> NoTables]
  /\ cMade = 0

\* the table right after migrate
CrudIdle ==
  /\ usersTable = {}
  /\ sqliteSeq = 0
  /\ CrudRequestsIdle

\* a JavaScript number is kept in halves (3 is 1.5)
JsUndefined == [t |-> "undefined"]
NoOut == [t |-> "none"]

\* no sum_to_n call made
SumIdle ==
  /\ sFn = "none"
  /\ sArgs = [n |-> JsUndefined, accumulator |-> JsUndefined]
  /\ sPc = "idle"
  /\ sN = 0
  /\ sI = 0
  /\ sSum = 0
  /\ sDepth = 0
  /\ sOut = NoOut

AuxIdle ==
  /\ HbIdle
  /\ RateIdle
  /\ CrudIdle
  /\ SumIdle

\* the stores and the requests before any request is made
FlowInit ==
  /\ now = StartMs
  /\ ticks = 0
  /\ tokens = [t \in Tokens |-> ActionToken(t, 1)]
  /\ nonces = [t \in Tokens |-> 0]
  /\ history = PriorHistory
  /\ leaderboard = (1 :> PriorCount)
  /\ lbVersion = 0
  /\ fraudLog = {}
  /\ auditFlags = {}
  /\ RequestsInit
  /\ LiveIdle
  /\ PureIdle

Init ==
  /\ FlowInit
  /\ AuxIdle

(* ---- the clock ---- *)
Tick ==
  /\ ticks < MaxTicks
  /\ \E d \in TimeSteps : now' = now + d
  /\ ticks' = ticks + 1
  /\ UNCHANGED <<tokens, storeVars, reqVars, liveVars, pureVars, auxVars>>

(* ---- POST /scores/update ---- *)
Submit(r, t, isTampered) ==
  /\ pc[r] = "idle"
  /\ pc' = [pc EXCEPT ![r] = "validate"]
  /\ tok' = [tok EXCEPT ![r] = t]
  /\ tampered' = [tampered EXCEPT ![r] = isTampered]
  /\ UNCHANGED <<result, risk, freqCount, reply>>
  /\ UNCHANGED <<tokens, clockVars, storeVars, liveVars, pureVars, auxVars>>

Finish(r, code) ==
  /\ pc' = [pc EXCEPT ![r] = "done"]
  /\ result' = [result EXCEPT ![r] = code]

\* validateActionToken steps 1-3, up to the first await
VerifyToken(r) ==
  /\ pc[r] = "validate"
  /\ IF ~SignatureValid(tampered[r]) THEN Finish(r, "INVALID_SIGNATURE")
     ELSE IF TokenExpired(now - tokens[tok[r]].ts) THEN Finish(r, "TOKEN_EXPIRED")
     ELSE pc' = [pc EXCEPT ![r] = "nonce_get"] /\ UNCHANGED result
  /\ UNCHANGED <<tok, tampered, risk, freqCount, reply>>
  /\ UNCHANGED <<tokens, clockVars, storeVars, liveVars, pureVars, auxVars>>

\* validateActionToken step 4: await redis.get(nonceKey)
GetNonce(r) ==
  /\ pc[r] = "nonce_get"
  /\ IF NonceExists(nonces, tokens[tok[r]].nonce, now) THEN Finish(r, "REPLAY_ATTACK")
     ELSE pc' = [pc EXCEPT ![r] = "nonce_set"] /\ UNCHANGED result
  /\ UNCHANGED <<tok, tampered, risk, freqCount, reply>>
  /\ UNCHANGED <<tokens, clockVars, storeVars, liveVars, pureVars, auxVars>>

\* validateActionToken step 5: await redis.setex(nonceKey, 600, '1'); return payload
SetNonce(r) ==
  /\ pc[r] = "nonce_set"
  /\ nonces' = SETEX(nonces, tokens[tok[r]].nonce, NONCE_TTL_S, now)
  /\ pc' = [pc EXCEPT ![r] = "risk"]
  /\ UNCHANGED <<leaderboard, lbVersion, history, fraudLog, auditFlags>>
  /\ UNCHANGED <<tok, tampered, result, risk, freqCount, reply>>
  /\ UNCHANGED <<tokens, clockVars, liveVars, pureVars, auxVars>>

\* Check Fraud Patterns: FraudDetectionEngine.assessRisk
AssessRisk(r) ==
  /\ pc[r] = "risk"
  /\ \E behavior \in BehaviorInputs, deviceRisk \in SubScoreSamples,
        timeRisk \in SubScoreSamples :
       LET a == RiskOf(history, tokens[tok[r]].user, tokens[tok[r]].inc, now,
                       behavior, deviceRisk, timeRisk)
       IN /\ risk' = [risk EXCEPT ![r] = a]
          /\ freqCount' = [freqCount EXCEPT ![r] =
                             Len(RecentRows(history, tokens[tok[r]].user, now))]
          /\ auditFlags' = IF AuditFlagged(a) THEN auditFlags \cup {r} ELSE auditFlags
  /\ pc' = [pc EXCEPT ![r] = "gate"]
  /\ UNCHANGED <<nonces, leaderboard, lbVersion, history, fraudLog>>
  /\ UNCHANGED <<tok, tampered, result, reply>>
  /\ UNCHANGED <<tokens, clockVars, liveVars, pureVars, auxVars>>

\* alt High Risk: Log Suspicious Activity, 429 Too Many Requests
BlockAndLog(r) ==
  /\ pc[r] = "gate"
  /\ HighRisk(risk[r])
  /\ fraudLog' = fraudLog \cup {r}
  /\ Finish(r, "BLOCKED")
  /\ UNCHANGED <<nonces, leaderboard, lbVersion, history, auditFlags>>
  /\ UNCHANGED <<tok, tampered, risk, freqCount, reply>>
  /\ UNCHANGED <<tokens, clockVars, liveVars, pureVars, auxVars>>

\* else Low Risk: ZINCRBY leaderboard userId score
UpdateLeaderboard(r) ==
  /\ pc[r] = "gate"
  /\ ~HighRisk(risk[r])
  /\ leaderboard' = ZINCRBY(leaderboard, tokens[tok[r]].user, tokens[tok[r]].inc)
  /\ reply' = [reply EXCEPT ![r] = Score(leaderboard', tokens[tok[r]].user)]
  /\ lbVersion' = lbVersion + 1
  /\ pc' = [pc EXCEPT ![r] = "insert"]
  /\ UNCHANGED <<nonces, history, fraudLog, auditFlags>>
  /\ UNCHANGED <<tok, tampered, result, risk, freqCount>>
  /\ UNCHANGED <<tokens, clockVars, liveVars, pureVars, auxVars>>

\* INSERT INTO score_history
InsertHistory(r) ==
  /\ pc[r] = "insert"
  /\ history' = Append(history,
        [user |-> tokens[tok[r]].user, inc |-> tokens[tok[r]].inc,
         old |-> reply[r] - tokens[tok[r]].inc, new |-> reply[r],
         at |-> now])
  /\ pc' = [pc EXCEPT ![r] = "publish"]
  /\ UNCHANGED <<nonces, leaderboard, lbVersion, fraudLog, auditFlags>>
  /\ UNCHANGED <<tok, tampered, result, risk, freqCount, reply>>
  /\ UNCHANGED <<tokens, clockVars, liveVars, pureVars, auxVars>>

\* the INSERT fails (PostgreSQL unavailable): the request ends with an error
InsertHistoryFails(r) ==
  /\ pc[r] = "insert"
  /\ Finish(r, "STORAGE_ERROR")
  /\ UNCHANGED <<tok, tampered, risk, freqCount, reply>>
  /\ UNCHANGED <<tokens, clockVars, storeVars, liveVars, pureVars, auxVars>>

\* Publish Score Update, 200 Success
PublishUpdate(r) ==
  /\ pc[r] = "publish"
  /\ inbox' = inbox + 1
  /\ Finish(r, "OK")
  /\ UNCHANGED <<tok, tampered, risk, freqCount, reply>>
  /\ UNCHANGED <<serverPc, serverSnap, connected, connPc, outq, seen, topk>>
  /\ UNCHANGED <<tokens, clockVars, storeVars, pureVars, auxVars>>

Next ==
  \/ Tick
  \/ \E r \in Requests, t \in Tokens, b \in BOOLEAN : Submit(r, t, b)
  \/ \E r \in Requests : VerifyToken(r)
  \/ \E r \in Requests : GetNonce(r)
  \/ \E r \in Requests : SetNonce(r)
  \/ \E r \in Requests : AssessRisk(r)
  \/ \E r \in Requests : BlockAndLog(r)
  \/ \E r \in Requests : UpdateLeaderboard(r)
  \/ \E r \in Requests : InsertHistory(r)
  \/ \E r \in Requests : InsertHistoryFails(r)
  \/ \E r \in Requests : PublishUpdate(r)

Spec == Init /\ [][Next]_vars

(* ---- assessRisk as a function of its five sub-scores ---- *)
GridVals == {0, 40, 50, 100}

ScoreInit ==
  /\ now = StartMs
  /\ ticks = 0
  /\ tokens = [t \in Tokens |-> ActionToken(t, 1)]
  /\ nonces = [t \in Tokens |-> 0]
  /\ history = PriorHistory
  /\ leaderboard = (1 :> PriorCount)
  /\ lbVersion = 0
  /\ fraudLog = {}
  /\ auditFlags = {}
  /\ RequestsInit
  /\ LiveIdle
  /\ riskArgs \in [1..5 -> GridVals]
  /\ riskOut = NoRisk
  /\ AuxIdle

ApplyAssessRisk ==
  /\ riskOut = NoRisk
  /\ riskOut' = assessRisk(riskArgs[1], riskArgs[2], riskArgs[3], riskArgs[4], riskArgs[5])
  /\ UNCHANGED <<tokens, clockVars, storeVars, reqVars, liveVars, riskArgs, auxVars>>

SpecScore == ScoreInit /\ [][ApplyAssessRisk]_vars

(***************************************************************************)
(* Real-time part: GET /leaderboard, WebSocket connections, the handler    *)
(* that turns score update events into pushes, and the clients             *)
(***************************************************************************)
\* the limit parameter of GET /leaderboard (1..100): below and above the
\* number of ranked users
Limits == {1, 3}

\* the order of ZREVRANGE: higher score first, members of equal score in
\* descending lexicographic order
ZBefore_ascending(lb, a, b) == lb[a] > lb[b] \/ (lb[a] = lb[b] /\ a <= b)

ZBefore(lb, a, b) == lb[a] > lb[b] \/ (lb[a] = lb[b] /\ a >= b)

RECURSIVE ZSorted(_, _)
ZSorted(lb, S) ==
  IF S = {} THEN <<>>
  ELSE LET first == CHOOSE a \in S : \A b \in S : ZBefore(lb, a, b)
       IN <<first>> \o ZSorted(lb, S \ {first})

\* ZREVRANGE leaderboard start stop WITHSCORES
ZREVRANGE(lb, start, stop) ==
  LET all == ZSorted(lb, DOMAIN lb)
      last == Min(stop + 1, Len(all))
  IN [i \in 1..(last - start) |->
        [user |-> all[start + i], score |-> lb[all[start + i]]]]

\* what the WebSocket handler sends: the top 10 and the leaderboard version
\* it was read at
Payload == [ver |-> lbVersion, top |-> ZREVRANGE(leaderboard, 0, 9)]

\* the leaderboard and score_history the real-time part starts from
LiveBoard == (1 :> 1) @@ (2 :> 3)

LiveHistory ==
  <<[user |-> 1, inc |-> 1, old |-> 0, new |-> 1, at |-> StartMs - 2 * 60 * 1000],
    [user |-> 2, inc |-> 3, old |-> 0, new |-> 3, at |-> StartMs - 60 * 1000]>>

\* request r carries token r; it has passed validateActionToken and assessRisk
\* (no behavior data, device and time sub-scores 0) and stands at the risk gate
LiveInit ==
  /\ now = StartMs
  /\ ticks = 0
  /\ tokens \in [Tokens -> {ActionToken(t, u) : t \in Tokens, u \in Users}]
  /\ \A t \in Tokens : tokens[t].nonce = t
  /\ nonces = [t \in Tokens |-> SETEX([n \in Tokens |-> 0], t, NONCE_TTL_S, StartMs)[t]]
  /\ history = LiveHistory
  /\ leaderboard = LiveBoard
  /\ lbVersion = 0
  /\ fraudLog = {}
  /\ pc = [r \in Requests |-> "gate"]
  /\ tok = [r \in Requests |-> r]
  /\ tampered = [r \in Requests |-> FALSE]
  /\ result = [r \in Requests |-> "NONE"]
  /\ risk = [r \in Requests |->
               RiskOf(LiveHistory, tokens[r].user, tokens[r].inc, StartMs,
                      <<-1, -1>>, 0, 0)]
  /\ auditFlags = {r \in Requests : AuditFlagged(risk[r])}
  /\ freqCount = [r \in Requests |-> Len(RecentRows(LiveHistory, tokens[r].user, StartMs))]
  /\ reply = [r \in Requests |-> -1]
  /\ LiveIdle
  /\ PureIdle
  /\ AuxIdle

\* GET /leaderboard?limit=k (offset 0)
GetLeaderboard(k) ==
  /\ topk' = [limit |-> k, at |-> lbVersion, entries |-> ZREVRANGE(leaderboard, 0, k - 1)]
  /\ UNCHANGED <<inbox, serverPc, serverSnap, connected, connPc, outq, seen>>
  /\ UNCHANGED <<tokens, clockVars, storeVars, reqVars, pureVars, auxVars>>

\* WebSocket Connect, ZREVRANGE leaderboard 0 9, Initial Leaderboard
Connect(c) ==
  /\ connPc[c] = "new"
  /\ connected' = connected \cup {c}
  /\ outq' = [outq EXCEPT ![c] = Append(@, Payload)]
  /\ connPc' = [connPc EXCEPT ![c] = "open"]
  /\ lastPing' = [lastPing EXCEPT ![c] = now]
  /\ UNCHANGED <<inbox, serverPc, serverSnap, seen, topk>>
  /\ UNCHANGED <<tokens, clockVars, storeVars, reqVars, pureVars, restVars>>

\* Score Update Event, ZREVRANGE leaderboard 0 9
FetchUpdated ==
  /\ serverPc = "idle"
  /\ inbox > 0
  /\ inbox' = inbox - 1
  /\ serverSnap' = Payload
  /\ serverPc' = "fetched"
  /\ UNCHANGED <<connected, connPc, outq, seen, topk>>
  /\ UNCHANGED <<tokens, clockVars, storeVars, reqVars, pureVars, auxVars>>

\* Updated Leaderboard, to every connected client
PushUpdated ==
  /\ serverPc = "fetched"
  /\ outq' = [c \in Conns |->
                IF c \in connected THEN Append(outq[c], serverSnap) ELSE outq[c]]
  /\ serverPc' = "idle"
  /\ UNCHANGED <<inbox, serverSnap, connected, connPc, seen, topk>>
  /\ UNCHANGED <<tokens, clockVars, storeVars, reqVars, pureVars, auxVars>>

\* ws.onmessage: updateUI(data.leaderboard)
OnMessage(c) ==
  /\ c \in connected
  /\ outq[c] # <<>>
  /\ seen' = [seen EXCEPT ![c] = Head(outq[c]).ver]
  /\ outq' = [outq EXCEPT ![c] = Tail(@)]
  /\ UNCHANGED <<inbox, serverPc, serverSnap, connected, connPc, topk>>
  /\ UNCHANGED <<tokens, clockVars, storeVars, reqVars, pureVars, auxVars>>

\* the cleanup leaves the connection in the fanout set
Disconnect_keepsSubscribed(c) ==
  /\ c \in connected
  /\ outq' = [outq EXCEPT ![c] = <<>>]
  /\ connPc' = [connPc EXCEPT ![c] = "closed"]
  /\ UNCHANGED <<inbox, serverPc, serverSnap, connected, seen, topk>>
  /\ UNCHANGED <<tokens, clockVars, storeVars, reqVars, pureVars, auxVars>>

\* Connection Lost: Detect Disconnection, Cleanup Resources
Disconnect(c) ==
  /\ c \in connected
  /\ connected' = connected \ {c}
  /\ outq' = [outq EXCEPT ![c] = <<>>]
  /\ connPc' = [connPc EXCEPT ![c] = "closed"]
  /\ UNCHANGED <<inbox, serverPc, serverSnap, seen, topk>>
  /\ UNCHANGED <<tokens, clockVars, storeVars, reqVars, pureVars, auxVars>>

\* the steps of request r from the risk gate on
Process(r) ==
  \/ UpdateLeaderboard(r)
  \/ InsertHistory(r)
  \/ InsertHistoryFails(r)
  \/ PublishUpdate(r)

LiveNext ==
  \/ \E r \in Requests : Process(r)
  \/ \E k \in Limits : GetLeaderboard(k)
  \/ \E c \in Conns : Connect(c)
  \/ FetchUpdated
  \/ PushUpdated
  \/ \E c \in Conns : OnMessage(c)
  \/ \E c \in Conns : Disconnect(c)

\* every request handler, the WebSocket handler and every client's message
\* loop keep running; nothing obliges a client to connect or to disconnect
LiveFairness ==
  /\ \A r \in Requests : WF_vars(Process(r))
  /\ WF_vars(FetchUpdated)
  /\ WF_vars(PushUpdated)
  /\ \A c \in Conns : WF_vars(OnMessage(c))

SpecLive == LiveInit /\ [][LiveNext]_vars /\ LiveFairness

(***************************************************************************)
(* Connection management: heartbeat ping/pong and the detection of lost    *)
(* connections                                                             *)
(***************************************************************************)
\* the heartbeat timeout and the clock step of this part (no source file
\* states the timeout)
HEARTBEAT_TIMEOUT_MS == 30000
HeartbeatStepMs == 20000
MaxHbTicks == 2

\* the requests that run in this part: the other stays at the risk gate
HbRequests == {1}

\* how long connection c has sent no ping
Silent(c) == now - lastPing[c]

HbInit ==
  /\ LiveInit
  /\ \A t \in Tokens : tokens[t].user = 3

HbTick ==
  /\ ticks < MaxHbTicks
  /\ now' = now + HeartbeatStepMs
  /\ ticks' = ticks + 1
  /\ UNCHANGED <<tokens, storeVars, reqVars, liveVars, pureVars, auxVars>>

\* Heartbeat Ping, Heartbeat Pong
Ping(c) ==
  /\ c \in connected
  /\ lastPing' = [lastPing EXCEPT ![c] = now]
  /\ UNCHANGED <<tokens, clockVars, storeVars, reqVars, liveVars, pureVars, restVars>>

\* Detect Disconnection: no ping within the timeout; Cleanup Resources
DetectDisconnection(c) ==
  /\ Silent(c) > HEARTBEAT_TIMEOUT_MS
  /\ Disconnect(c)

HbNext ==
  \/ HbTick
  \/ \E c \in Conns : Connect(c)
  \/ \E c \in Conns : Ping(c)
  \/ \E c \in Conns : DetectDisconnection(c)
  \/ \E r \in HbRequests : UpdateLeaderboard(r)
  \/ \E r \in HbRequests : InsertHistory(r)
  \/ \E r \in HbRequests : PublishUpdate(r)
  \/ FetchUpdated
  \/ PushUpdated
  \/ \E c \in Conns : OnMessage(c)

\* the WebSocket handler keeps checking its connections
HbFairness == \A c \in Conns : WF_vars(DetectDisconnection(c))

SpecHeartbeat == HbInit /\ [][HbNext]_vars /\ HbFairness

(***************************************************************************)
(* Cancellation of a score update request (client disconnect)              *)
(***************************************************************************)
\* the positions a request can be abandoned at: before each of its steps
CancelPoints == {"validate", "nonce_get", "nonce_set", "risk", "gate", "insert", "publish"}

\* the request is abandoned where it stands: none of its later steps runs and
\* nothing it has written is undone
Cancel(r) ==
  /\ pc[r] \in CancelPoints
  /\ Finish(r, "CANCELLED")
  /\ UNCHANGED <<tok, tampered, risk, freqCount, reply>>
  /\ UNCHANGED <<tokens, clockVars, storeVars, liveVars, pureVars, auxVars>>

CancelNext ==
  \/ \E r \in Requests, t \in Tokens : Submit(r, t, FALSE)
  \/ \E r \in Requests : VerifyToken(r)
  \/ \E r \in Requests : GetNonce(r)
  \/ \E r \in Requests : SetNonce(r)
  \/ \E r \in Requests : AssessRisk(r)
  \/ \E r \in Requests : BlockAndLog(r)
  \/ \E r \in Requests : UpdateLeaderboard(r)
  \/ \E r \in Requests : InsertHistory(r)
  \/ \E r \in Requests : PublishUpdate(r)
  \/ \E r \in Requests : Cancel(r)

SpecCancel == Init /\ [][CancelNext]_vars

(***************************************************************************)
(* RateLimiter: the per-user limit of enforceRateLimit, for one user       *)
(***************************************************************************)
USER_LIMIT == 10
WINDOW_MS == 60 * 1000

\* concurrent calls of enforceRateLimit, clock steps, and how many requests
\* and clock steps this part follows
RlSteps == {1, 59999}
MaxRlRequests == 13
MaxRlTicks == 2

\* the longest a call takes from its Date.now() to the pipeline's execution
MaxCallMs == 1

\* requests of the user already served at StartMs, all allowed
RatePrior == 9

\* a sorted set whose members are unique per request is kept as the number of
\* members per score
RECURSIVE ZCARD(_)
ZCARD(z) ==
  IF DOMAIN z = {} THEN 0
  ELSE LET s == CHOOSE x \in DOMAIN z : TRUE
       IN z[s] + ZCARD([x \in DOMAIN z \ {s} |-> z[x]])

ZADD(z, score) ==
  IF score \in DOMAIN z THEN [z EXCEPT ![score] = @ + 1] ELSE z @@ (score :> 1)

\* the range leaves out the upper limit
ZREMRANGEBYSCORE_exclusive(z, lo, hi) ==
  [s \in {x \in DOMAIN z : ~(lo <= x /\ x < hi)} |-> z[s]]

ZREMRANGEBYSCORE(z, lo, hi) ==
  [s \in {x \in DOMAIN z : ~(lo <= x /\ x <= hi)} |-> z[s]]

\* the members with a score above lo
After(z, lo) == [s \in {x \in DOMAIN z : x > lo} |-> z[s]]

EmptyZ == <<>>

\* checkRateLimit(key, limit, window) with Date.now() = stamp, run on the
\* sorted set z: the MULTI pipeline and the result
checkRateLimit(z, stamp, limit, window) ==
  LET windowStart == stamp - window
      added == ZADD(ZREMRANGEBYSCORE(z, 0, windowStart), stamp)
      count == ZCARD(added)
  IN [key |-> added,
      allowed |-> count <= limit,
      count |-> count,
      limit |-> limit,
      resetTime |-> stamp + window]

RateInit ==
  /\ FlowInit
  /\ HbIdle
  /\ CrudIdle
  /\ SumIdle
  /\ rlKey = (StartMs :> RatePrior)
  /\ rlExpire = StartMs + WINDOW_MS
  /\ rlAll = (StartMs :> RatePrior)
  /\ rlAllowed = (StartMs :> RatePrior)
  /\ rlResets = {}
  /\ rlPc = [q \in RlSlots |-> "idle"]
  /\ rlStamp = [q \in RlSlots |-> 0]
  /\ rlMade = 0

RlTick ==
  /\ ticks < MaxRlTicks
  /\ \E d \in RlSteps :
       /\ \A q \in RlSlots : rlPc[q] = "called" => now + d - rlStamp[q] <= MaxCallMs
       /\ now' = now + d
  /\ ticks' = ticks + 1
  /\ UNCHANGED <<tokens, storeVars, reqVars, liveVars, pureVars, auxVars>>

\* checkRateLimit up to pipeline.exec(): const now = Date.now()
ReadClock(q) ==
  /\ rlPc[q] = "idle"
  /\ rlMade < MaxRlRequests
  /\ rlMade' = rlMade + 1
  /\ rlStamp' = [rlStamp EXCEPT ![q] = now]
  /\ rlPc' = [rlPc EXCEPT ![q] = "called"]
  /\ UNCHANGED <<rlKey, rlExpire, rlAll, rlAllowed, rlResets>>
  /\ UNCHANGED <<tokens, clockVars, storeVars, reqVars, liveVars, pureVars, hbVars, crudVars, sumVars>>

\* pipeline.exec() on Redis, whose key may have expired, and the rest of
\* enforceRateLimit: 429 with the reset time, or next()
ExecPipeline(q) ==
  /\ rlPc[q] = "called"
  /\ LET z == IF now >= rlExpire THEN EmptyZ ELSE rlKey
         userLimit == checkRateLimit(z, rlStamp[q], USER_LIMIT, WINDOW_MS)
     IN /\ rlKey' = userLimit.key
        /\ rlExpire' = now + ((WINDOW_MS + 999) \div 1000) * 1000
        /\ rlAll' = ZADD(rlAll, rlStamp[q])
        /\ IF userLimit.allowed
             THEN rlAllowed' = ZADD(rlAllowed, rlStamp[q]) /\ UNCHANGED rlResets
             ELSE rlResets' = rlResets \cup {userLimit.resetTime} /\ UNCHANGED rlAllowed
  /\ rlPc' = [rlPc EXCEPT ![q] = "idle"]
  /\ UNCHANGED <<rlStamp, rlMade>>
  /\ UNCHANGED <<tokens, clockVars, storeVars, reqVars, liveVars, pureVars, hbVars, crudVars, sumVars>>

RateNext ==
  \/ RlTick
  \/ \E q \in RlSlots : ReadClock(q)
  \/ \E q \in RlSlots : ExecPipeline(q)

SpecRate == RateInit /\ [][RateNext]_vars

(***************************************************************************)
(* Users API (src/src/problem5): the handlers of UserController over the   *)
(* SQLite table users.  Every await of a handler is a step of its own:     *)
(* between two queries of one request the queries of another may run.      *)
(*                                                                         *)
(* Strings are sequences of letters; the empty sequence is a field the     *)
(* JSON body does not have.  created_at is in seconds.                     *)
(***************************************************************************)
\* how many requests this part follows
MaxCrudRequests == 3

\* a number the body does not have, and the NULL of an INTEGER column
Undefined == -1
Null == -2
NoStr == <<>>

Names == {<<1, 2>>, <<1, 2, 3>>}
Emails == {<<1, 9>>, <<2, 9>>}
Ages == {Undefined, 0, 30}
CrudIds == {1, 2}

NoRow == [id |-> 0]
EmptyBody == [name |-> NoStr, email |-> NoStr, age |-> Undefined]

\* the bodies createUserSchema and updateUserSchema let through
CreateBodies == [name : Names, email : Emails, age : Ages]
\* an update names one field, or all three
UpdateBodies ==
  {b \in [name : Names \cup {NoStr}, email : Emails \cup {NoStr}, age : Ages] :
     Cardinality({f \in {"name", "email"} : b[f] # NoStr}
                   \cup {f \in {"age"} : b[f] # Undefined}) \in {1, 3}}

\* the requests the router hands to the controller
CrudRequestSet ==
  {[op |-> "create", id |-> 0, body |-> b] : b \in CreateBodies}
  \cup {[op |-> "get", id |-> i, body |-> EmptyBody] : i \in CrudIds}
  \cup {[op |-> "update", id |-> i, body |-> b] : i \in CrudIds, b \in UpdateBodies}
  \cup {[op |-> "delete", id |-> i, body |-> EmptyBody] : i \in CrudIds}

\* JavaScript's falsy numbers, as in (userData.age || null)
Falsy(v) == v = Undefined \/ v = 0
OrElse(v, d) == IF Falsy(v) THEN d ELSE v

\* CURRENT_TIMESTAMP
Seconds == now \div 1000

Ids(table) == {r.id : r \in table}
RowOf(table, id) == CHOOSE r \in table : r.id = id

\* UserModel.findById: the row, or null
findById(table, id) == IF id \in Ids(table) THEN RowOf(table, id) ELSE NoRow

\* UserModel.exists(email, excludeId)
exists(table, email, excludeId) ==
  \E r \in table : r.email = email /\ (Falsy(excludeId) \/ r.id # excludeId)

\* the column constraint is not enforced
UniqueOk_off(table, email, id) == TRUE

\* email TEXT UNIQUE: may the row id hold email
UniqueOk(table, email, id) == ~\E r \in table : r.email = email /\ r.id # id

\* the id is one more than the largest id in the table
NextId_rowid(table, seq) ==
  IF table = {} THEN 1 ELSE 1 + CHOOSE i \in Ids(table) : \A j \in Ids(table) : j <= i

\* INTEGER PRIMARY KEY AUTOINCREMENT: one more than the largest id ever assigned
NextId(table, seq) == seq + 1

\* the value UserModel.create binds to the age column
AgeParam(age) == OrElse(age, Null)

\* the row INSERT INTO users (name, email, age) adds
NewRow(table, seq, body) ==
  [id |-> NextId(table, seq),
   name |-> body.name,
   email |-> body.email,
   age |-> AgeParam(body.age),
   created_at |-> Seconds,
   updated_at |-> [iso |-> FALSE, at |-> Seconds]]

\* the user UserModel.create resolves with
CreatedUser(id, body) ==
  [id |-> id, name |-> body.name, email |-> body.email, age |-> body.age]

\* the UPDATE sets every column from the body
UpdatedRow_allColumns(r, body) ==
  [r EXCEPT !.name = body.name,
            !.email = IF body.email # NoStr THEN body.email ELSE @,
            !.age = IF body.age # Undefined THEN body.age ELSE Null,
            !.updated_at = [iso |-> TRUE, at |-> Seconds]]

\* the row UPDATE users SET ... WHERE id = ? leaves
UpdatedRow(r, body) ==
  [r EXCEPT !.name = IF body.name # NoStr THEN body.name ELSE @,
            !.email = IF body.email # NoStr THEN body.email ELSE @,
            !.age = IF body.age # Undefined THEN body.age ELSE @,
            !.updated_at = [iso |-> TRUE, at |-> Seconds]]

\* the err.code values the handler tells apart for a failed constraint
DriverCodes == {"SQLITE_CONSTRAINT", "SQLITE_CONSTRAINT_UNIQUE"}

\* errorHandler: the status and message for an error with this code
errorHandler(code) ==
  IF code = "SQLITE_CONSTRAINT_UNIQUE"
    THEN [status |-> 409, message |-> "Email already exists", data |-> NoRow]
  ELSE IF code = "SQLITE_CONSTRAINT"
    THEN [status |-> 400, message |-> "Database constraint violation", data |-> NoRow]
  ELSE [status |-> 500, message |-> "Internal server error", data |-> NoRow]

NotFound == [status |-> 404, message |-> "User not found", data |-> NoRow]
Conflict == [status |-> 409, message |-> "Email already exists", data |-> NoRow]

nonCrudVars ==
  <<tokens, clockVars, storeVars, reqVars, liveVars, pureVars, hbVars, rlVars, sumVars>>

\* res.status(...).json(response), or next(error) into errorHandler
Respond(q, response) ==
  /\ cRes' = [cRes EXCEPT ![q] = response]
  /\ cPc' = [cPc EXCEPT ![q] = "idle"]

Goto(q, label) ==
  /\ cPc' = [cPc EXCEPT ![q] = label]
  /\ UNCHANGED cRes

\* a request passes validate and enters its handler
Receive(q) ==
  /\ cPc[q] = "idle"
  /\ cMade < MaxCrudRequests
  /\ cMade' = cMade + 1
  /\ \E r \in CrudRequestSet :
       /\ cReq' = [cReq EXCEPT ![q] = r]
       /\ cPc' = [cPc EXCEPT ![q] = r.op]
  /\ cRes' = [cRes EXCEPT ![q] = NoResponse]
  /\ UNCHANGED <<usersTable, sqliteSeq, cTmp, cSnap, nonCrudVars>>

\* UserController.create: await UserModel.exists(userData.email)
CreateExists(q) ==
  /\ cPc[q] = "create"
  /\ IF exists(usersTable, cReq[q].body.email, Undefined)
       THEN Respond(q, Conflict)
       ELSE Goto(q, "insert")
  /\ UNCHANGED <<usersTable, sqliteSeq, cReq, cTmp, cSnap, cMade, nonCrudVars>>

\* UserController.create: await UserModel.create(userData)
CreateInsert(q) ==
  /\ cPc[q] = "insert"
  /\ LET row == NewRow(usersTable, sqliteSeq, cReq[q].body)
     IN IF UniqueOk(usersTable, row.email, row.id)
          THEN /\ usersTable' = usersTable \cup {row}
               /\ sqliteSeq' = IF row.id > sqliteSeq THEN row.id ELSE sqliteSeq
               /\ Respond(q, [status |-> 201, message |-> "User created successfully",
                              data |-> CreatedUser(row.id, cReq[q].body)])
          ELSE /\ \E code \in DriverCodes : Respond(q, errorHandler(code))
               /\ UNCHANGED <<usersTable, sqliteSeq>>
  /\ UNCHANGED <<cReq, cTmp, cSnap, cMade, nonCrudVars>>

\* UserController.getById
GetById(q) ==
  /\ cPc[q] = "get"
  /\ LET user == findById(usersTable, cReq[q].id)
     IN IF user = NoRow
          THEN Respond(q, NotFound)
          ELSE Respond(q, [status |-> 200, message |-> "User retrieved successfully",
                           data |-> user])
  /\ UNCHANGED <<usersTable, sqliteSeq, cReq, cTmp, cSnap, cMade, nonCrudVars>>

\* UserController.update: await UserModel.findById(userId)
UpdateFindById(q) ==
  /\ cPc[q] = "update"
  /\ IF findById(usersTable, cReq[q].id) = NoRow
       THEN Respond(q, NotFound)
       ELSE IF cReq[q].body.email # NoStr
         THEN Goto(q, "updateExists")
         ELSE Goto(q, "updateRun")
  /\ UNCHANGED <<usersTable, sqliteSeq, cReq, cTmp, cSnap, cMade, nonCrudVars>>

\* UserController.update: await UserModel.exists(userData.email, userId)
UpdateExists(q) ==
  /\ cPc[q] = "updateExists"
  /\ IF exists(usersTable, cReq[q].body.email, cReq[q].id)
       THEN Respond(q, Conflict)
       ELSE Goto(q, "updateRun")
  /\ UNCHANGED <<usersTable, sqliteSeq, cReq, cTmp, cSnap, cMade, nonCrudVars>>

\* UserModel.update: the UPDATE statement
UpdateRun(q) ==
  /\ cPc[q] = "updateRun"
  /\ LET id == cReq[q].id
         body == cReq[q].body
     IN IF id \notin Ids(usersTable)
          \* this.changes === 0: resolve(null)
          THEN /\ Respond(q, [status |-> 200, message |-> "User updated successfully",
                              data |-> NoRow])
               /\ UNCHANGED usersTable
          ELSE LET old == RowOf(usersTable, id)
                   new == UpdatedRow(old, body)
               IN IF UniqueOk(usersTable, new.email, id)
                    THEN /\ usersTable' = (usersTable \ {old}) \cup {new}
                         /\ Goto(q, "updateFindAgain")
                    ELSE /\ \E code \in DriverCodes : Respond(q, errorHandler(code))
                         /\ UNCHANGED usersTable
  /\ UNCHANGED <<sqliteSeq, cReq, cTmp, cSnap, cMade, nonCrudVars>>

\* UserModel.update: resolve(new UserModel().findById(id))
UpdateFindAgain(q) ==
  /\ cPc[q] = "updateFindAgain"
  /\ Respond(q, [status |-> 200, message |-> "User updated successfully",
                 data |-> findById(usersTable, cReq[q].id)])
  /\ UNCHANGED <<usersTable, sqliteSeq, cReq, cTmp, cSnap, cMade, nonCrudVars>>

\* UserController.delete
DeleteUser(q) ==
  /\ cPc[q] = "delete"
  /\ LET id == cReq[q].id
     IN IF id \in Ids(usersTable)
          THEN /\ usersTable' = usersTable \ {RowOf(usersTable, id)}
               /\ Respond(q, [status |-> 200, message |-> "User deleted successfully",
                              data |-> NoRow])
          ELSE /\ Respond(q, NotFound)
               /\ UNCHANGED usersTable
  /\ UNCHANGED <<sqliteSeq, cReq, cTmp, cSnap, cMade, nonCrudVars>>

CrudNext ==
  \/ \E q \in CrudSlots : Receive(q)
  \/ \E q \in CrudSlots : CreateExists(q)
  \/ \E q \in CrudSlots : CreateInsert(q)
  \/ \E q \in CrudSlots : GetById(q)
  \/ \E q \in CrudSlots : UpdateFindById(q)
  \/ \E q \in CrudSlots : UpdateExists(q)
  \/ \E q \in CrudSlots : UpdateRun(q)
  \/ \E q \in CrudSlots : UpdateFindAgain(q)
  \/ \E q \in CrudSlots : DeleteUser(q)

SpecCrud == Init /\ [][CrudNext]_vars

(***************************************************************************)
(* GET /users: UserModel.findAll, its filters and its pagination, over a   *)
(* seeded table, with DELETE requests running beside it                    *)
(***************************************************************************)
DEFAULT_PAGE == 1
DEFAULT_LIMIT == 10
MAX_LIMIT == 50

\* the query parameters of the list requests
Pages == {Undefined, 1, 2, 3}
PageSizes == {Undefined, 1, 2}
NoFilter == [name |-> NoStr, email |-> NoStr, minAge |-> Undefined, maxAge |-> Undefined]
FilterSamples ==
  {NoFilter,
   [NoFilter EXCEPT !.name = <<2, 3>>],
   [NoFilter EXCEPT !.email = <<1>>],
   [NoFilter EXCEPT !.minAge = 30],
   [NoFilter EXCEPT !.maxAge = 30],
   [NoFilter EXCEPT !.name = <<1, 2>>, !.minAge = 0]}

ListRequestSet ==
  {[op |-> "list", id |-> 0, body |-> EmptyBody,
    query |-> [page |-> p, limit |-> l, name |-> f.name, email |-> f.email,
               minAge |-> f.minAge, maxAge |-> f.maxAge]] :
     p \in Pages, l \in PageSizes, f \in FilterSamples}

\* how many users the table is seeded with at most, and how many requests
\* this part follows
SeedCount == 3
MaxListRequests == 2

\* the seeded users: name and email by id
SeedName(i) == IF i % 2 = 0 THEN <<1, 2, 3>> ELSE <<1, 2>>
SeedEmail(i) == IF i % 3 = 0 THEN <<1, i, 9>> ELSE <<i, 9>>

SeedRow(i, age, at) ==
  [id |-> i, name |-> SeedName(i), email |-> SeedEmail(i), age |-> age,
   created_at |-> at, updated_at |-> [iso |-> FALSE, at |-> at]]

\* users 1..n, inserted one after the other in this second or the one before
SeedTables ==
  {{SeedRow(i, a[i], c[i]) : i \in 1..n} :
     n \in 0..SeedCount,
     a \in [1..SeedCount -> {Null, 30}],
     c \in {x \in [1..SeedCount -> {(StartMs \div 1000) - 1, StartMs \div 1000}] :
              \A i, j \in 1..SeedCount : i < j => x[i] <= x[j]}}

\* querySchema: the defaults Joi fills in
querySchema(query) ==
  [query EXCEPT !.page = IF @ = Undefined THEN DEFAULT_PAGE ELSE @,
                !.limit = IF @ = Undefined THEN DEFAULT_LIMIT ELSE @]

\* x LIKE '%s%'
Substring(s, x) ==
  \E i \in 1..(Len(x) - Len(s) + 1) : SubSeq(x, i, i + Len(s) - 1) = s

\* the WHERE clause findAll builds
Matches(r, f) ==
  /\ f.name # NoStr => Substring(f.name, r.name)
  /\ f.email # NoStr => Substring(f.email, r.email)
  /\ f.minAge # Undefined => (r.age # Null /\ r.age >= f.minAge)
  /\ f.maxAge # Undefined => (r.age # Null /\ r.age <= f.maxAge)

Where(table, f) == {r \in table : Matches(r, f)}

\* Math.ceil(a / b)
Ceil(a, b) == (a + b - 1) \div b

\* the orders ORDER BY created_at DESC may return the rows in
DescOrders(rows) ==
  {o \in [1..Cardinality(rows) -> rows] :
     /\ \A i, j \in DOMAIN o : i # j => o[i] # o[j]
     /\ \A i, j \in DOMAIN o : i < j => o[i].created_at >= o[j].created_at}

PageOf(f) == OrElse(f.page, DEFAULT_PAGE)
LimitOf(f) == Min(OrElse(f.limit, DEFAULT_LIMIT), MAX_LIMIT)

\* the offset is a page too far
Offset_fromPage(page, limit) == page * limit

Offset(page, limit) == (page - 1) * limit

\* SELECT COUNT(*) as total FROM users WHERE ...
countQuery(table, f) == Cardinality(Where(table, f))

\* SELECT ... ORDER BY created_at DESC LIMIT ? OFFSET ?
dataQuery(order, limit, offset) ==
  SubSeq(order, offset + 1, Min(offset + limit, Len(order)))

\* what findAll resolves with
PaginatedResponse(f, total, rows) ==
  LET page == PageOf(f)
      limit == LimitOf(f)
      totalPages == Ceil(total, limit)
  IN [data |-> rows,
      pagination |-> [page |-> page, limit |-> limit, total |-> total,
                      totalPages |-> totalPages,
                      hasNext |-> page < totalPages,
                      hasPrev |-> page > 1]]

ListInit ==
  /\ FlowInit
  /\ HbIdle
  /\ RateIdle
  /\ SumIdle
  /\ CrudRequestsIdle
  /\ usersTable \in SeedTables
  /\ sqliteSeq = SeedCount

\* a list request of the client that pages through the users, or a delete
\* request of another client, passes validate and enters its handler
ReceiveList(q) ==
  /\ cPc[q] = "idle"
  /\ cMade < MaxListRequests
  /\ cMade' = cMade + 1
  /\ \E r \in (IF q = 1 THEN ListRequestSet
                         ELSE {x \in CrudRequestSet : x.op = "delete"}) :
       /\ cReq' = [cReq EXCEPT ![q] = r]
       /\ cPc' = [cPc EXCEPT ![q] = r.op]
  /\ cRes' = [cRes EXCEPT ![q] = NoResponse]
  /\ UNCHANGED <<usersTable, sqliteSeq, cTmp, cSnap, nonCrudVars>>

\* UserModel.findAll: the count query
ListCount(q) ==
  /\ cPc[q] = "list"
  /\ cTmp' = [cTmp EXCEPT ![q] = countQuery(usersTable, querySchema(cReq[q].query))]
  /\ cSnap' = [cSnap EXCEPT ![q] = [first |-> usersTable, last |-> {}]]
  /\ Goto(q, "listData")
  /\ UNCHANGED <<usersTable, sqliteSeq, cReq, cMade, nonCrudVars>>

\* UserModel.findAll: the data query, and getAll's answer
ListData(q) ==
  /\ cPc[q] = "listData"
  /\ LET f == querySchema(cReq[q].query)
         limit == LimitOf(f)
         offset == Offset(PageOf(f), limit)
     IN \E order \in DescOrders(Where(usersTable, f)) :
          Respond(q, [status |-> 200, message |-> "Users retrieved successfully",
                      data |-> PaginatedResponse(f, cTmp[q],
                                                 dataQuery(order, limit, offset))])
  /\ cSnap' = [cSnap EXCEPT ![q].last = usersTable]
  /\ UNCHANGED <<usersTable, sqliteSeq, cReq, cTmp, cMade, nonCrudVars>>

ListNext ==
  \/ \E q \in CrudSlots : ReceiveList(q)
  \/ \E q \in CrudSlots : ListCount(q)
  \/ \E q \in CrudSlots : ListData(q)
  \/ \E q \in CrudSlots : DeleteUser(q)

SpecList == ListInit /\ [][ListNext]_vars

(***************************************************************************)
(* sum_to_n (TypeScript version): one call of sum_to_n_a, sum_to_n_b,      *)
(* sum_to_n_c or sum_to_n_c_optimized.  Every iteration of a loop and      *)
(* every function call and return is a step.  Numbers are integers here:   *)
(* every value of the runs followed is below 2^53, where the doubles of    *)
(* JavaScript are exact.                                                   *)
(***************************************************************************)
RECURSION_LIMIT_C == 10000
RECURSION_LIMIT_C_OPTIMIZED == 50000

\* the number x, and the values that are no numbers
JsNumber(halves) == [t |-> "number", halves |-> halves]
JsInt(n) == JsNumber(2 * n)

\* the arguments of the calls followed
SumInputs ==
  {JsInt(n) : n \in {-5, 0, 1, 5, 100, 10000, 10001, 25000, 50000, 50001}}
  \cup {JsNumber(3), JsNumber(-3)}
  \cup {[t |-> "string"], [t |-> "null"], JsUndefined, [t |-> "NaN"], [t |-> "Infinity"]}
SumAccumulators == {JsUndefined, JsInt(7), JsInt(-1)}
SumFns == {"sum_to_n_a", "sum_to_n_b", "sum_to_n_c", "sum_to_n_c_optimized"}

\* every number passes
IsInteger_anyNumber(x) == x.t = "number"

\* Number.isInteger(x)
IsInteger(x) == x.t = "number" /\ x.halves % 2 = 0

\* !(!Number.isInteger(n) || n < 0)
NonNegativeInteger(x) == ~(~IsInteger(x) \/ x.halves < 0)

IntOf(x) == x.halves \div 2

\* (n * (n + 1)) / 2, the even factor halved first to stay within 32 bits
Formula(n) == IF n % 2 = 0 THEN (n \div 2) * (n + 1) ELSE n * ((n + 1) \div 2)

Returned(v) == [t |-> "return", value |-> v]
Thrown(message) == [t |-> "throw", message |-> message]
InputError == Thrown("Input must be a non-negative integer")
AccumulatorError == Thrown("Accumulator must be a non-negative integer")
RangeError == Thrown("Maximum call stack size exceeded")

nonSumVars ==
  <<tokens, clockVars, storeVars, reqVars, liveVars, pureVars, hbVars, rlVars, crudVars>>

\* the call ends with a value or an exception
SumEnd(out) ==
  /\ sOut' = out
  /\ sPc' = "done"

\* a call of fn(n, accumulator) begins: the input validation
SumCall(fn, n, accumulator) ==
  /\ sPc = "idle"
  /\ sFn' = fn
  /\ sArgs' = [n |-> n, accumulator |-> accumulator]
  /\ sDepth' = 1
  /\ IF ~NonNegativeInteger(n)
       THEN SumEnd(InputError) /\ UNCHANGED <<sN, sSum>>
       ELSE LET acc == IF accumulator = JsUndefined THEN JsInt(0) ELSE accumulator
            IN IF fn = "sum_to_n_c_optimized" /\ ~NonNegativeInteger(acc)
                 THEN SumEnd(AccumulatorError) /\ UNCHANGED <<sN, sSum>>
                 ELSE /\ sN' = IntOf(n)
                      /\ sSum' = IF fn = "sum_to_n_c_optimized" THEN IntOf(acc) ELSE 0
                      /\ sPc' = fn
                      /\ UNCHANGED sOut
  /\ UNCHANGED <<sI, nonSumVars>>

\* sum_to_n_a: let sum = 0, and the loop's let i = 1
BodyA ==
  /\ sPc = "sum_to_n_a"
  /\ sSum' = 0
  /\ sI' = 1
  /\ sPc' = "loop"
  /\ UNCHANGED <<sFn, sArgs, sN, sDepth, sOut, nonSumVars>>

\* for (let i = 1; i <= n; i++) sum += i; return sum
LoopStep ==
  /\ sPc = "loop"
  /\ IF sI <= sN
       THEN /\ sSum' = sSum + sI
            /\ sI' = sI + 1
            /\ UNCHANGED <<sPc, sOut>>
       ELSE /\ SumEnd(Returned(sSum))
            /\ UNCHANGED <<sSum, sI>>
  /\ UNCHANGED <<sFn, sArgs, sN, sDepth, nonSumVars>>

\* sum_to_n_b
BodyB ==
  /\ sPc = "sum_to_n_b"
  /\ SumEnd(Returned(Formula(sN)))
  /\ UNCHANGED <<sFn, sArgs, sN, sI, sSum, sDepth, nonSumVars>>

\* sum_to_n_c with n = sN: the base cases, the fallback, or the recursive call
BodyC ==
  /\ sPc = "sum_to_n_c"
  /\ IF sN <= 0
       THEN /\ sSum' = 0
            /\ sPc' = "c_return"
            /\ UNCHANGED <<sN, sI, sDepth>>
     ELSE IF sN = 1
       THEN /\ sSum' = 1
            /\ sPc' = "c_return"
            /\ UNCHANGED <<sN, sI, sDepth>>
     ELSE IF sN > RECURSION_LIMIT_C
       THEN /\ sSum' = 0
            /\ sI' = 1
            /\ sPc' = "loop"
            /\ UNCHANGED <<sN, sDepth>>
     ELSE /\ sN' = sN - 1
          /\ sDepth' = sDepth + 1
          /\ UNCHANGED <<sPc, sI, sSum>>
  /\ UNCHANGED <<sFn, sArgs, sOut, nonSumVars>>

\* return n + sum_to_n_c(n - 1): the call for sN returns sSum to its caller
ReturnC ==
  /\ sPc = "c_return"
  /\ IF sDepth = 1
       THEN /\ SumEnd(Returned(sSum))
            /\ UNCHANGED <<sN, sSum, sDepth>>
       ELSE /\ sSum' = (sN + 1) + sSum
            /\ sN' = sN + 1
            /\ sDepth' = sDepth - 1
            /\ UNCHANGED <<sPc, sOut>>
  /\ UNCHANGED <<sFn, sArgs, sI, nonSumVars>>

\* sum_to_n_c_optimized with n = sN and accumulator = sSum
BodyCOptimized ==
  /\ sPc = "sum_to_n_c_optimized"
  /\ IF sN <= 0
       THEN /\ SumEnd(Returned(sSum))
            /\ UNCHANGED <<sN, sSum, sDepth>>
     ELSE IF sN > RECURSION_LIMIT_C_OPTIMIZED
       THEN /\ SumEnd(Returned(sSum + Formula(sN)))
            /\ UNCHANGED <<sN, sSum, sDepth>>
     ELSE /\ sN' = sN - 1
          /\ sSum' = sSum + sN
          /\ sDepth' = sDepth + 1
          /\ UNCHANGED <<sPc, sOut>>
  /\ UNCHANGED <<sFn, sArgs, sI, nonSumVars>>

\* the engine's call stack is exhausted: possible once the calls are nested
\* deeper than the depth the code itself treats as safe
StackOverflow ==
  /\ sPc \in {"sum_to_n_c", "sum_to_n_c_optimized"}
  /\ sDepth > RECURSION_LIMIT_C
  /\ SumEnd(RangeError)
  /\ UNCHANGED <<sFn, sArgs, sN, sI, sSum, sDepth, nonSumVars>>

SumNext ==
  \/ \E fn \in SumFns, n \in SumInputs, accumulator \in SumAccumulators :
       /\ fn # "sum_to_n_c_optimized" => accumulator = JsUndefined
       /\ SumCall(fn, n, accumulator)
  \/ BodyA
  \/ LoopStep
  \/ BodyB
  \/ BodyC
  \/ ReturnC
  \/ BodyCOptimized
  \/ StackOverflow

SpecSum == Init /\ [][SumNext]_vars

(***************************************************************************)
(* Properties                                                              *)
(***************************************************************************)
RECURSIVE SumIncs(_)
SumIncs(S) ==
  IF S = {} THEN 0
  ELSE LET r == CHOOSE x \in S : TRUE IN tokens[tok[r]].inc + SumIncs(S \ {r})

UserOf(r) == tokens[tok[r]].user
Applied(r) == reply[r] # -1
Validated(r) ==
  \/ pc[r] \in {"risk", "gate", "insert", "publish"}
  \/ pc[r] = "done" /\ result[r] \in {"BLOCKED", "OK", "STORAGE_ERROR"}
Accepted(r) == pc[r] = "done" /\ result[r] \in {"OK", "STORAGE_ERROR"}
PriorRows(u) == Len(UserRows(PriorHistory, u))
PriorScore(u) == SumSeq([i \in 1..PriorRows(u) |-> UserRows(PriorHistory, u)[i].inc])

\* C1: of all submissions of one action token, in any interleaving, at most one
\* passes validateActionToken and at most one applies the token's increment;
\* two concurrent submissions never both pass the nonce check.
C1_SingleUse ==
  \A t \in Tokens :
    /\ Cardinality({r \in Requests : tok[r] = t /\ Validated(r)}) <= 1
    /\ Cardinality({r \in Requests : tok[r] = t /\ Applied(r)}) <= 1

\* C2: once every submitted request for a user has finished, the user's score is
\* the initial score plus the increments of exactly the requests that were
\* accepted (validated and not blocked): none lost, none applied twice.
C2_NoLostIncrement ==
  (\A r \in Requests : pc[r] \in {"idle", "done"}) =>
    \A u \in Users :
      Score(leaderboard, u) =
        PriorScore(u) + SumIncs({r \in Requests : Accepted(r) /\ UserOf(r) = u})

C2_Witness ==
  /\ \A r \in Requests : Accepted(r) /\ UserOf(r) = 1
  /\ tok[1] # tok[2]
  /\ Score(leaderboard, 1) = PriorCount + 4

\* C3: in every state each user has as many score_history rows as increments
\* applied to the user's score, and every row has new_score = old_score +
\* increment: the score never changes without its history row.
C3_HistoryInStep ==
  /\ \A u \in Users :
       Len(UserRows(history, u)) =
         PriorRows(u) + Cardinality({r \in Requests : Applied(r) /\ UserOf(r) = u})
  /\ \A i \in 1..Len(history) : history[i].new = history[i].old + history[i].inc

\* C4: a token with a valid signature is rejected as expired exactly when its age
\* at the check exceeds 5 minutes (at exactly 5 minutes it passes), whether or not
\* its nonce is already recorded; an expired token records no nonce, is never
\* assessed and changes no score.
C4_ExpiredState ==
  \A r \in Requests :
    result[r] = "TOKEN_EXPIRED" => ~Applied(r) /\ risk[r] = NoRisk

C4_ExpiredStep ==
  \A r \in Requests :
    (pc[r] = "validate" /\ pc'[r] # "validate" /\ ~tampered[r]) =>
      /\ (result'[r] = "TOKEN_EXPIRED") <=> (now - tokens[tok[r]].ts > 300000)
      /\ result'[r] = "TOKEN_EXPIRED" =>
           nonces' = nonces /\ leaderboard' = leaderboard /\ history' = history

C4_Expiry == [](C4_ExpiredState) /\ [][C4_ExpiredStep]_vars

\* a submission accepted at the age of exactly 5 minutes, and a later submission
\* of the same token rejected as expired while the nonce is on record
C4_Witness ==
  \E r \in Requests :
    /\ result[r] = "TOKEN_EXPIRED"
    /\ nonces[tok[r]] = tokens[tok[r]].ts + 300000 + 600000
    /\ NonceExists(nonces, tok[r], now)

\* C5: a request whose recommendation is BLOCK never reaches the ledger (no
\* ZINCRBY, no history row, the leaderboard untouched) and is logged; a request
\* whose recommendation is ALLOW, MONITOR or CHALLENGE is applied, and exactly
\* MONITOR and CHALLENGE are flagged for audit.
C5_GateState ==
  \A r \in Requests :
    /\ risk[r].recommendation = "BLOCK" =>
         /\ ~Applied(r)
         /\ pc[r] \in {"gate", "done"}
         /\ pc[r] = "done" => result[r] = "BLOCKED" /\ r \in fraudLog
    /\ (risk[r].recommendation \in {"ALLOW", "MONITOR", "CHALLENGE"} /\ pc[r] # "gate") =>
         Applied(r) /\ r \notin fraudLog
    /\ risk[r].recommendation \in {"MONITOR", "CHALLENGE"} <=> r \in auditFlags

C5_GateStep ==
  \A r \in Requests :
    (risk[r].recommendation = "BLOCK" /\ pc'[r] # pc[r]) =>
      leaderboard' = leaderboard /\ history' = history /\ lbVersion' = lbVersion

OthersWeighted(a) ==
  a.riskFactors[2] * 25 + a.riskFactors[3] * 20 + a.riskFactors[4] * 15
  + a.riskFactors[5] * 10

\* C6 as stated: with 25 updates in the last hour the frequency sub-score is at
\* least 0.9 and the total risk at least 0.8 whatever the other sub-scores, so
\* the update is BLOCKed and the score does not change.
C6_AlwaysBlocked ==
  \A r \in Requests :
    freqCount[r] = 25 =>
      /\ risk[r].riskFactors[1] >= 90
      /\ risk[r].totalRiskScore >= 8000
      /\ risk[r].recommendation = "BLOCK"
      /\ ~Applied(r)

\* C6 amended: with 25 (or more) updates in the last hour the frequency sub-score
\* is at least 0.9 and contributes 0.27; the total reaches 0.8, and the update is
\* BLOCKed with no score change, exactly when the other four sub-scores
\* contribute at least 0.53; otherwise the update is not BLOCKed and is applied.
C6_BlockedWhenOthersHigh ==
  \A r \in Requests :
    freqCount[r] >= 25 =>
      /\ risk[r].riskFactors[1] >= 90
      /\ risk[r].totalRiskScore >= 2700
      /\ (OthersWeighted(risk[r]) >= 5300) <=> (risk[r].totalRiskScore >= 8000)
      /\ OthersWeighted(risk[r]) >= 5300 =>
           risk[r].recommendation = "BLOCK" /\ ~Applied(r)
      /\ OthersWeighted(risk[r]) < 5300 =>
           risk[r].recommendation # "BLOCK" /\ (pc[r] # "gate" => Applied(r))

C6_Witness ==
  \E r1, r2 \in Requests :
    /\ freqCount[r1] = 25 /\ result[r1] = "BLOCKED"
    /\ freqCount[r2] = 25 /\ risk[r2].recommendation # "BLOCK" /\ Applied(r2)
    /\ Score(leaderboard, UserOf(r2)) = PriorCount + tokens[tok[r2]].inc

\* C7: for sub-scores in [0,1] the total assessRisk returns is their weighted sum
\* with the weights 0.3, 0.25, 0.2, 0.15, 0.1 (summing to 1.0), lies in [0,1], and
\* the recommendation is BLOCK from 0.8, CHALLENGE from 0.6, MONITOR from 0.4 and
\* ALLOW below, of that same total.
C7_WeightedSum ==
  /\ W_FREQUENCY + W_PATTERN + W_BEHAVIOR + W_DEVICE + W_TIME = 100
  /\ riskOut # NoRisk =>
       LET total == riskArgs[1] * 30 + riskArgs[2] * 25 + riskArgs[3] * 20
                    + riskArgs[4] * 15 + riskArgs[5] * 10
       IN /\ riskOut.totalRiskScore = total
          /\ total >= 0 /\ total <= 10000
          /\ riskOut.recommendation =
               IF total >= 8000 THEN "BLOCK"
               ELSE IF total >= 6000 THEN "CHALLENGE"
               ELSE IF total >= 4000 THEN "MONITOR"
               ELSE "ALLOW"

C7_Witness ==
  /\ riskOut.totalRiskScore = 8000
  /\ riskOut.recommendation = "BLOCK"

(* ---- the real-time part ---- *)
RECURSIVE MaxOf(_)
MaxOf(S) ==
  LET x == CHOOSE y \in S : TRUE
  IN IF S = {x} THEN x
     ELSE LET m == MaxOf(S \ {x}) IN IF x > m THEN x ELSE m

Ranked == DOMAIN leaderboard
InFlight(r) == pc[r] \in {"insert", "publish"}

\* the answer of GET /leaderboard against the sorted set it was read from (no
\* ZINCRBY since): the length, the entries' scores, no user twice, no user
\* left out who ranks before a returned one, and the order, where tieAsc says
\* whether users of equal score are ordered by ascending or descending id
TopKRight(tieAsc) ==
  topk.at = lbVersion =>
    LET e == topk.entries
        First(ua, sa, ub, sb) ==
          sa > sb \/ (sa = sb /\ IF tieAsc THEN ua < ub ELSE ua > ub)
    IN /\ Len(e) = Min(topk.limit, Cardinality(Ranked))
       /\ \A i \in 1..Len(e) : e[i].user \in Ranked /\ e[i].score = leaderboard[e[i].user]
       /\ \A i, j \in 1..Len(e) : i < j =>
             /\ e[i].user # e[j].user
             /\ First(e[i].user, e[i].score, e[j].user, e[j].score)
       /\ \A u \in Ranked : (\A i \in 1..Len(e) : e[i].user # u) =>
             \A i \in 1..Len(e) : First(e[i].user, e[i].score, u, leaderboard[u])

\* C8 (as stated): every answer of topK(k), also with score updates in flight,
\* is a consistent snapshot: min(k, ranked users) entries, no user twice, none
\* of the true top k skipped, ordered by score descending, users of equal
\* score by ascending id.
C8_TiesAscending == TopKRight(TRUE)

\* C8 (amended): the same, with users of equal score ordered by descending id,
\* the order of ZREVRANGE.
C8_TiesDescending == TopKRight(FALSE)

\* an answer read while an update is in flight whose first two users are tied
C8_Witness ==
  /\ topk.at = lbVersion
  /\ \E r \in Requests : InFlight(r)
  /\ Len(topk.entries) = 3
  /\ topk.entries[1].score = topk.entries[2].score

\* C9: for every user the sorted set holds the newest value the ledger
\* (ZINCRBY) committed for that user: the starting score plus every applied
\* increment, the greatest of the committed values
C9_IndexState ==
  \A u \in Users :
    LET mine == {r \in Requests : Applied(r) /\ UserOf(r) = u}
    IN /\ Score(leaderboard, u) = Score(LiveBoard, u) + SumIncs(mine)
       /\ Score(leaderboard, u) = MaxOf({Score(LiveBoard, u)} \cup {reply[r] : r \in mine})

\* C9: a user's score in the sorted set changes only by a request of that
\* user committing, to the value committed, which is newer (greater) than
\* every value committed for the user before
C9_IndexStep ==
  \A u \in Users :
    Score(leaderboard', u) # Score(leaderboard, u) =>
      /\ Score(leaderboard', u) > Score(leaderboard, u)
      /\ \E r \in Requests :
           /\ pc[r] = "gate" /\ pc'[r] = "insert" /\ UserOf(r) = u
           /\ reply'[r] = Score(leaderboard', u)
           /\ \A q \in Requests : Applied(q) /\ UserOf(q) = u => reply[q] < reply'[r]

C10_EventuallyLatest ==
  \A c \in Conns : \A v \in 1..Cardinality(Requests) :
    (c \in connected /\ lbVersion >= v) ~> (c \notin connected \/ seen[c] >= v)

\* the bound of a subscriber's outbound queue (no source file states one)
QueueBound == 2

\* C11: a subscriber's outbound queue never holds more than its bound (on a
\* full queue the oldest update is dropped for the new one).
C11_QueueBounded == \A c \in Conns : Len(outq[c]) <= QueueBound

(* ---- connection management ---- *)
C12_RemovedState ==
  \A c \in Conns : connPc[c] = "closed" => c \notin connected /\ outq[c] = <<>>

C12_RemovedStep ==
  \A c \in Conns :
    /\ connPc[c] = "closed" => connPc'[c] = "closed" /\ seen'[c] = seen[c]
    /\ c \in connected /\ c \notin connected' => Silent(c) > HEARTBEAT_TIMEOUT_MS

AtRest == \A r \in Requests : pc[r] \in {"idle", "done"}

\* C13: once every request has ended, cancelled or not, no partial state is
\* left: a request cancelled before the ledger write has changed neither
\* score nor history, one cancelled after it has left its increment and its
\* history row, so score and history account for the same requests.
C13_CancelClean ==
  AtRest =>
    /\ Score(leaderboard, 1) = PriorScore(1) + SumIncs({r \in Requests : Applied(r)})
    /\ Len(UserRows(history, 1)) = PriorRows(1) + Cardinality({r \in Requests : Applied(r)})

(* ---- rate limiting ---- *)
\* the members with a score above lo and up to hi
Between(z, lo, hi) == [s \in {x \in DOMAIN z : lo < x /\ x <= hi} |-> z[s]]

\* C14: in every 60-second window (the 60 seconds up to and including any
\* allowed request) the rate limiter has allowed at most 10 requests of the
\* user, whatever the interleaving of the user's concurrent requests.
C14_WindowLimit ==
  \A T \in DOMAIN rlAllowed :
    ZCARD(Between(rlAllowed, T - WINDOW_MS, T)) <= USER_LIMIT

\* call q gets its answer in this step
Answered(q) == rlPc[q] = "called" /\ rlPc'[q] = "idle"

Done(q) == cPc[q] = "idle" /\ cRes[q].status # 0

\* C16: after any sequence and interleaving of create, update and delete
\* requests, no two rows of the users table have the same email.
C16_UniqueEmail ==
  \A r1, r2 \in usersTable : r1.email = r2.email => r1.id = r2.id

\* two creates of one email raced past the existence check, one row was
\* inserted and the other INSERT failed on the constraint
C16_Witness ==
  \E p, q \in CrudSlots :
    /\ p # q
    /\ cReq[p].op = "create" /\ cReq[q].op = "create"
    /\ cReq[p].body.email = cReq[q].body.email
    /\ Done(p) /\ cRes[p].status = 201
    /\ Done(q) /\ cRes[q].status \in {400, 409}
    /\ cRes[p].data.id \in Ids(usersTable)

\* the next query of request q finds the requested email held by another user
DuplicateAt(q) ==
  LET body == cReq[q].body
  IN \/ cPc[q] = "create" /\ exists(usersTable, body.email, Undefined)
     \/ cPc[q] = "insert" /\ ~UniqueOk(usersTable, body.email, 0)
     \/ cPc[q] = "updateExists" /\ exists(usersTable, body.email, cReq[q].id)
     \/ /\ cPc[q] = "updateRun"
        /\ cReq[q].id \in Ids(usersTable)
        /\ body.email # NoStr
        /\ ~UniqueOk(usersTable, body.email, cReq[q].id)

\* C17: a create or update that is refused because another user holds the
\* requested email is answered 409 and changes no row, in the controller's
\* existence check and in the UNIQUE constraint of the INSERT or UPDATE alike.
C17_Duplicate409 ==
  [][\A q \in CrudSlots :
       (DuplicateAt(q) /\ cPc'[q] # cPc[q])
         => cRes'[q].status = 409 /\ usersTable' = usersTable]_vars

\* two ages are the same when both are no age (absent or null) or both are
\* the same number
NoAge(a) == a \in {Undefined, Null}
SameAge(a, b) == IF NoAge(a) \/ NoAge(b) THEN NoAge(a) /\ NoAge(b) ELSE a = b

\* request p is a create answered 201, and request q a GET answered 200 for
\* the id of that answer, the user not having been updated in between
RoundTrip(p, q) ==
  /\ Done(p) /\ cReq[p].op = "create" /\ cRes[p].status = 201
  /\ Done(q) /\ cReq[q].op = "get" /\ cRes[q].status = 200
  /\ cReq[q].id = cRes[p].data.id
  /\ ~cRes[q].data.updated_at.iso

\* C18: the user GET /users/:id returns for the id of a 201 answer has the
\* name, the email and the age of the create request and of the 201 body,
\* age 0 included.
C18_RoundTrip ==
  \A p, q \in CrudSlots :
    RoundTrip(p, q) =>
      /\ cRes[q].data.name = cReq[p].body.name
      /\ cRes[q].data.name = cRes[p].data.name
      /\ cRes[q].data.email = cReq[p].body.email
      /\ cRes[q].data.email = cRes[p].data.email
      /\ SameAge(cRes[q].data.age, cReq[p].body.age)
      /\ SameAge(cRes[q].data.age, cRes[p].data.age)

\* request q runs the first query of its handler in this step
FirstQuery(q) == cPc[q] \in {"get", "update", "delete"} /\ cPc'[q] # cPc[q]

\* a request for an id without a row is answered 404 and changes nothing
C19_MissingStep ==
  \A q \in CrudSlots :
    (FirstQuery(q) /\ cReq[q].id \notin Ids(usersTable))
      => cRes'[q] = NotFound /\ usersTable' = usersTable

\* a delete of a stored user is answered 200 and removes that row only
C19_DeleteStep ==
  \A q \in CrudSlots :
    (FirstQuery(q) /\ cPc[q] = "delete" /\ cReq[q].id \in Ids(usersTable))
      => /\ cRes'[q].status = 200
         /\ usersTable' = usersTable \ {RowOf(usersTable, cReq[q].id)}
         /\ Ids(usersTable') = Ids(usersTable) \ {cReq[q].id}

\* an id that was assigned and has no row never has a row again
C19_GoneStep ==
  \A i \in 1..sqliteSeq : i \notin Ids(usersTable) => i \notin Ids(usersTable')

C19_Assigned == \A i \in Ids(usersTable) : i <= sqliteSeq

\* C19: a get, update or delete for an id with no stored user is answered
\* 404 'User not found' and leaves the table unchanged; a delete of a stored
\* user is answered 200 and removes exactly that user, whose id has no row
\* from then on, so that every later request for it is answered 404.
C19_NotFound ==
  /\ []C19_Assigned
  /\ [][C19_MissingStep /\ C19_DeleteStep /\ C19_GoneStep]_vars

\* user i was deleted with a 200 and another request for i was answered 404
C19_Witness ==
  \E p, q \in CrudSlots :
    /\ Done(p) /\ cReq[p].op = "delete" /\ cRes[p].status = 200
    /\ Done(q) /\ cReq[q].op \in {"get", "update", "delete"}
    /\ cReq[q].id = cReq[p].id
    /\ cRes[q] = NotFound
    /\ cReq[p].id <= sqliteSeq /\ cReq[p].id \notin Ids(usersTable)

\* a list request that was answered, the table being the same at both of
\* its queries
ListedUnchanged(q) ==
  /\ Done(q) /\ cReq[q].op = "list" /\ cRes[q].status = 200
  /\ cSnap[q].first = cSnap[q].last

\* C20: for a list request with page >= 1 and limit in 1..50 (defaults page
\* 1, limit 10) over a table that does not change during the request:
\* total is the number of users matching the filters, totalPages is
\* ceil(total / limit), hasNext is page < totalPages, hasPrev is page > 1,
\* and data is the users at positions (page-1)*limit+1 .. page*limit of the
\* matching users in an order of descending created_at.
C20_Pagination ==
  \A q \in CrudSlots :
    ListedUnchanged(q) =>
      LET query == cReq[q].query
          page == IF query.page = Undefined THEN 1 ELSE query.page
          limit == IF query.limit = Undefined THEN 10 ELSE query.limit
          matching == {r \in cSnap[q].first : Matches(r, query)}
          total == Cardinality(matching)
          data == cRes[q].data.data
          pg == cRes[q].data.pagination
          lo == (page - 1) * limit + 1
          hi == page * limit
      IN /\ pg.page = page /\ pg.limit = limit
         /\ pg.total = total
         /\ pg.totalPages * limit >= total
         /\ (pg.totalPages - 1) * limit < total
         /\ pg.hasNext <=> (page < pg.totalPages)
         /\ pg.hasPrev <=> (page > 1)
         /\ Len(data) <= limit
         /\ \E o \in DescOrders(matching) :
              /\ Len(data) = Cardinality({k \in 1..total : lo <= k /\ k <= hi})
              /\ \A k \in 1..Len(data) : data[k] = o[lo + k - 1]

\* the second page of two users or more with one user a page, some users
\* created in the same second
C20_Witness ==
  \E q \in CrudSlots :
    /\ ListedUnchanged(q)
    /\ cReq[q].query.page = 2 /\ cReq[q].query.limit = 1
    /\ cRes[q].data.pagination.total = 3
    /\ cRes[q].data.pagination.hasNext /\ cRes[q].data.pagination.hasPrev
    /\ Len(cRes[q].data.data) = 1
    /\ \E r1, r2 \in cSnap[q].first : r1 # r2 /\ r1.created_at = r2.created_at

(* ---- nonce expiry ---- *)
\* a recorded nonce that has expired from the replay store belongs to a token
\* older than the validity window
C25_ExpiredNonceOldToken ==
  \A t \in Tokens :
    (nonces[t] # 0 /\ ~NonceExists(nonces, t, now)) => TokenExpired(now - tokens[t].ts)

\* C25: the expiry of nonces (TTL of 10 minutes from acceptance) never
\* re-opens a replay: when a recorded nonce expires its token is older than
\* the 5-minute validity window, so that in every timeline a token is
\* accepted at most once.
C25_NoReplayAfterExpiry ==
  /\ C25_ExpiredNonceOldToken
  /\ \A t \in Tokens : \A r1, r2 \in Requests :
       (tok[r1] = t /\ tok[r2] = t /\ Validated(r1) /\ Validated(r2)) => r1 = r2

(* ---- users API: PUT /users/:id ---- *)
\* C23: every 200 'User updated successfully' carries the record of the
\* updated user, also when a delete of that user runs between the
\* controller's findById and the UPDATE; an update that changed no row is
\* never answered as a success.
C23_UpdatedRecord ==
  \A q \in CrudSlots :
    (Done(q) /\ cReq[q].op = "update" /\ cRes[q].status = 200)
      => cRes[q].data # NoRow /\ cRes[q].data.id = cReq[q].id

\* the fields of a users row a request body can name
BodyFields == {"name", "email", "age"}
Supplied(body, f) == IF f = "age" THEN body[f] # Undefined ELSE body[f] # NoStr

\* request q is an update and takes a step
UpdateStep(q) == cReq[q].op = "update" /\ cPc[q] # "idle" /\ cPc'[q] # cPc[q]

\* the step leaves every row but that of id as it is and changes in that row
\* the supplied fields and updated_at only
C24_FrameStep ==
  \A q \in CrudSlots :
    (UpdateStep(q) /\ usersTable' # usersTable) =>
      /\ cPc[q] = "updateRun" /\ cPc'[q] = "updateFindAgain"
      /\ cReq[q].id \in Ids(usersTable) /\ cReq[q].id \in Ids(usersTable')
      /\ LET old == RowOf(usersTable, cReq[q].id)
             new == RowOf(usersTable', cReq[q].id)
         IN /\ usersTable' \ {new} = usersTable \ {old}
            /\ new.id = old.id /\ new.created_at = old.created_at
            /\ \A f \in BodyFields :
                 new[f] = IF Supplied(cReq[q].body, f) THEN cReq[q].body[f] ELSE old[f]

\* an update that has changed a row is answered 200
C24_AnswerStep ==
  \A q \in CrudSlots :
    (UpdateStep(q) /\ cPc'[q] = "idle" /\ cRes'[q].status # 200)
      => cPc[q] # "updateFindAgain" /\ usersTable' = usersTable

\* C24: a successful update of a user changes only the fields supplied in
\* the body and updated_at of that user (id, created_at and the fields not
\* supplied keep their values, every other row is unchanged); an update
\* answered 400, 404 or 409 changes nothing.
C24_UpdateFrame == [][C24_FrameStep /\ C24_AnswerStep]_vars

\* an update of one field of user 1 was answered 200 beside another user,
\* the fields it did not name being the created ones
C24_Witness ==
  \E q \in CrudSlots :
    /\ Done(q) /\ cReq[q].op = "update" /\ cRes[q].status = 200
    /\ cRes[q].data # NoRow
    /\ cReq[q].body.name # NoStr /\ cReq[q].body.email = NoStr
    /\ cRes[q].data.name = cReq[q].body.name
    /\ cRes[q].data.updated_at.iso
    /\ Cardinality(usersTable) = 2

(* ---- sum_to_n ---- *)
\* negative, or not an integer
InvalidInput(x) == x.t # "number" \/ x.halves % 2 # 0 \/ x.halves < 0

\* C22: a call of any of the four functions with an input that is negative or
\* not an integer throws 'Input must be a non-negative integer' and returns
\* no value.
C22_InvalidInputThrows ==
  (sFn # "none" /\ InvalidInput(sArgs.n)) => sOut = InputError

C22_Witness ==
  /\ sFn = "sum_to_n_c_optimized"
  /\ sArgs.n = JsNumber(3)
  /\ sPc = "done"
  /\ sOut = InputError

\* n*(n+1)/2
Triangular(n) == LET h == n \div 2 IN IF n = 2 * h THEN h * (n + 1) ELSE n * (h + 1)

\* the accumulator passed, 0 when none is
AccumulatorOf(x) == IF x = JsUndefined THEN 0 ELSE x.halves \div 2

\* C21: for every non-negative integer n (and non-negative integer acc) a call
\* that has ended has returned acc + n*(n+1)/2, whichever of the four
\* functions was called and on whichever side of the recursion limits n lies.
C21_SumFormula ==
  (/\ sPc = "done"
   /\ ~InvalidInput(sArgs.n)
   /\ sArgs.accumulator # JsUndefined => ~InvalidInput(sArgs.accumulator))
    => sOut = Returned(AccumulatorOf(sArgs.accumulator) + Triangular(sArgs.n.halves \div 2))

\* the calls that stay within the safe depth, or are made above the limits,
\* do return the formula's value
C21_WithinLimits ==
  (/\ sPc = "done"
   /\ ~InvalidInput(sArgs.n)
   /\ sArgs.accumulator # JsUndefined => ~InvalidInput(sArgs.accumulator)
   /\ sOut # RangeError)
    => sOut = Returned(AccumulatorOf(sArgs.accumulator) + Triangular(sArgs.n.halves \div 2))

=============================================================================
